---- MODULE Spec2Model ----
(***************************************************************************)
(* A model of van.py (schema bootstrap, one-time training, the cached      *)
(* NL -> SQL pipeline) and of the Streamlit front end that drives it.      *)
(*                                                                         *)
(* Text is modelled line by line: a string is the sequence of its lines    *)
(* (joined by "\n"), the empty string is << >>, and a line made of blanks  *)
(* only is the line " ".  Python's None is kept apart from "".             *)
(***************************************************************************)
EXTENDS Integers, Sequences, FiniteSets, TLC

\* ------------------------------------------------------------------ bounds
\* The counter of vn.train(ddl=...) calls stops counting here.
MaxTrainCalls == 2

\* ------------------------------------------------------------- text values
Blank     == " "
Comment   == "-- top albums"
SelAlbum  == "SELECT Title FROM Album LIMIT 5;"
SelTypo   == "SELEC Title FROM Album;"
ErrMarker == "Error running intermediate SQL"

EmptyText == << >>

IsBlankLine(l)   == l = Blank
IsCommentLine(l) == l = Comment

\* str.strip() on a whole text: leading and trailing blank lines go, the lines
\* in between stay.
RECURSIVE LStrip(_)
LStrip(t) ==
    IF t = << >> THEN << >>
    ELSE IF IsBlankLine(Head(t)) THEN LStrip(Tail(t))
    ELSE t

RECURSIVE RStrip(_)
RStrip(t) ==
    IF t = << >> THEN << >>
    ELSE IF IsBlankLine(t[Len(t)]) THEN RStrip(SubSeq(t, 1, Len(t) - 1))
    ELSE t

Strip(t) == RStrip(LStrip(t))

\* ------------------------------------------------------------ the questions
MainQuestion == "top 5 countries on the basis of sales"
UiQuestion   == "Show top 5 albums"
Questions    == {MainQuestion, UiQuestion}

\* hashlib.md5(nl_query.encode()).hexdigest() on the questions of the model.
md5(q) ==
    CASE q = MainQuestion -> "0638809aeed59cf8de2ac660b0014137"
      [] q = UiQuestion   -> "7220e536ae35c12f412d72418f51be6f"

\* ------------------------------------------------------- the schema scripts
\* A schema script is the sequence of its statements.  quote names the
\* character that precedes the table name in a CREATE TABLE statement
\* ([Album] is "bracket", 'Album' is "squote").
Create(t, qt) == [kind |-> "create", table |-> t, quote |-> qt]
Junk          == [kind |-> "junk", table |-> "", quote |-> "none"]

ChinookScript == << Create("Album", "bracket"), Create("Artist", "bracket") >>
BrokenScript  == << Create("Album", "bracket"), Junk >>
QuotedScript  == << Create("Album", "squote") >>
NotFoundPage  == << Junk >>
Scripts       == {ChinookScript, BrokenScript, QuotedScript, NotFoundPage}

IsCreate(s) == s.kind = "create"

\* re.findall(r"(CREATE\s+TABLE.+?;)", ...) joined: the CREATE TABLE blocks in
\* their order.
extract_ddl(script) == SelectSeq(script, IsCreate)

\* The name pattern accepts a back quote, a double quote or a bracket before
\* the name, and no single quote.
NameMatches(s) == IsCreate(s) /\ s.quote \in {"none", "backquote", "dquote", "bracket"}

\* re.search(...).group(1), or None when nothing matches.
extract_first_table_name(ddl) ==
    LET hits == SelectSeq(ddl, NameMatches)
    IN  IF hits = << >> THEN "None" ELSE Head(hits).table

\* ------------------------------------------------------------ the database
\* sqlite3's executescript: the statements run one after the other, each in
\* effect as soon as it has run; the first that fails ends the script.
RECURSIVE executescript(_, _)
executescript(tables, script) ==
    IF script = << >> THEN [ok |-> TRUE, tables |-> tables]
    ELSE LET s == Head(script)
         IN  IF IsCreate(s) /\ s.table \notin tables
             THEN executescript(tables \cup {s.table}, Tail(script))
             ELSE [ok |-> FALSE, tables |-> tables]

IsStatementLine(l) == ~IsBlankLine(l) /\ ~IsCommentLine(l)

\* conn.execute(sql).fetchall(): sqlite skips comments and blanks, accepts one
\* statement, and raises on a second one, on a syntax error and on a missing
\* table.
execute(tables, sql) ==
    LET stmts == SelectSeq(sql, IsStatementLine)
    IN  IF stmts = << >> THEN "empty"
        ELSE IF Len(stmts) > 1 THEN "error"
        ELSE IF Head(stmts) = SelAlbum /\ "Album" \in tables THEN "rows"
        ELSE "error"

\* ----------------------------------------------------------- the providers
\* What vn.generate_sql(nl_query, allow_llm_to_see_data=True) can do: raise,
\* return None, or return a text.
Raise      == [kind |-> "raise", text |-> EmptyText]
None       == [kind |-> "none", text |-> EmptyText]
Text(t)    == [kind |-> "text", text |-> t]

GenerateSqlOutcomes ==
    { Raise, None, Text(EmptyText), Text(<< Blank >>), Text(<< ErrMarker >>),
      Text(<< Comment, SelAlbum >>) }

\* What the chat completion can do: the request fails (requests raises, or
\* raise_for_status does), or choices[0].message.content is a text.
MistralOutcomes ==
    { Raise, Text(<< Blank, SelAlbum, Blank >>), Text(<< SelTypo >>) }

\* call_mistral_chat without raise_for_status: a failed request yields an
\* empty content.
call_mistral_chat_unchecked(resp) ==
    IF resp.kind = "raise" THEN Text(EmptyText) ELSE Text(Strip(resp.text))

\* call_mistral_chat: the content, stripped; a failed request raises.
call_mistral_chat(resp) ==
    IF resp.kind = "raise" THEN Raise ELSE Text(Strip(resp.text))

\* ----------------------------------------------------------- the cache
EmptyCache == [k \in {} |-> EmptyText]

\* query_cache[key] = sql
\* The mapping rebound to the new entry alone instead of updated.
put_rebinding(cache, k, v) == [x \in {k} |-> v]

Put(cache, k, v) ==
    [x \in (DOMAIN cache) \cup {k} |-> IF x = k THEN v ELSE cache[x]]

\* The cache file: absent, a JSON object, or cut short by a crash while it was
\* being rewritten.
NoFile        == [state |-> "absent", data |-> EmptyCache]
JsonFile(c)   == [state |-> "ok", data |-> c]
CorruptFile   == [state |-> "corrupt", data |-> EmptyCache]

\* load_cache: the file's object, {} when there is no file; json.load raises
\* on a file that is not JSON.
load_cache(file) ==
    CASE file.state = "absent"  -> [raised |-> FALSE, cache |-> EmptyCache]
      [] file.state = "ok"      -> [raised |-> FALSE, cache |-> file.data]
      [] file.state = "corrupt" -> [raised |-> TRUE, cache |-> EmptyCache]

\* save_cache: open(CACHE_PATH, "w") empties the file, json.dump writes the
\* whole mapping.  cut: the process dies between the two.
save_cache(cache, cut) == IF cut THEN CorruptFile ELSE JsonFile(cache)

\* ------------------------------------------------------- get_connection
\* The flag never consulted.
first_time_always(flag) == TRUE

\* first_time = not os.path.exists(DB_SCHEMA_FLAG)
first_time(flag) == ~flag

\* get_connection writing the flag before it runs the script.
get_connection_flag_first(flag, schema, tables, die) ==
    IF flag
    THEN [tables |-> tables, flag |-> flag, ddl |-> FALSE, ddl_ok |-> FALSE,
          fault |-> "none", died |-> FALSE]
    ELSE IF ~schema.exists
    THEN [tables |-> tables, flag |-> TRUE, ddl |-> FALSE, ddl_ok |-> FALSE,
          fault |-> "FileNotFoundError", died |-> FALSE]
    ELSE LET r == executescript(tables, schema.script)
         IN  [tables |-> r.tables, flag |-> TRUE, ddl |-> TRUE,
              ddl_ok |-> r.ok,
              fault |-> IF r.ok THEN "none" ELSE "OperationalError",
              died |-> r.ok /\ die]

\* get_connection returning the connection without ever writing the flag.
get_connection_no_flag(flag, schema, tables, die) ==
    IF flag
    THEN [tables |-> tables, flag |-> flag, ddl |-> FALSE, ddl_ok |-> FALSE,
          fault |-> "none", died |-> FALSE]
    ELSE IF ~schema.exists
    THEN [tables |-> tables, flag |-> flag, ddl |-> FALSE, ddl_ok |-> FALSE,
          fault |-> "FileNotFoundError", died |-> FALSE]
    ELSE LET r == executescript(tables, schema.script)
         IN  [tables |-> r.tables, flag |-> flag, ddl |-> TRUE,
              ddl_ok |-> r.ok,
              fault |-> IF r.ok THEN "none" ELSE "OperationalError",
              died |-> r.ok /\ die]

\* get_connection on the files as they are.  die: the process is killed after
\* executescript and before the flag is written.  The result: the tables and
\* the flag afterwards, whether executescript was called (ddl) and returned
\* (ddl_ok), and the error that left the function, if any.
get_connection(flag, schema, tables, die) ==
    IF ~first_time(flag)
    THEN [tables |-> tables, flag |-> flag, ddl |-> FALSE, ddl_ok |-> FALSE,
          fault |-> "none", died |-> FALSE]
    ELSE IF ~schema.exists
    THEN [tables |-> tables, flag |-> flag, ddl |-> FALSE, ddl_ok |-> FALSE,
          fault |-> "FileNotFoundError", died |-> FALSE]
    ELSE LET r == executescript(tables, schema.script)
         IN  IF ~r.ok
             THEN [tables |-> r.tables, flag |-> flag, ddl |-> TRUE,
                   ddl_ok |-> FALSE, fault |-> "OperationalError", died |-> FALSE]
             ELSE IF die
             THEN [tables |-> r.tables, flag |-> flag, ddl |-> TRUE,
                   ddl_ok |-> TRUE, fault |-> "none", died |-> TRUE]
             ELSE [tables |-> r.tables, flag |-> TRUE, ddl |-> TRUE,
                   ddl_ok |-> TRUE, fault |-> "none", died |-> FALSE]

\* ------------------------------------------------------- load_and_train
\* The provider's answer to a vn.train call.
TrainOutcomes == {"ok", "raise"}

\* load_and_train(conn, schema_path): how many vn.train(ddl=...) and
\* vn.train(sql=...) calls were issued, whether vn.run_sql was bound, and the
\* error that left the function, if any.
load_and_train(schema, t1, t2) ==
    LET ddl   == extract_ddl(schema.script)
        table == extract_first_table_name(ddl)
    IN  IF ~schema.exists
        THEN [ddl_calls |-> 0, sql_calls |-> 0, bound |-> FALSE,
              fault |-> "FileNotFoundError"]
        ELSE IF ddl = << >>
        THEN [ddl_calls |-> 0, sql_calls |-> 0, bound |-> FALSE,
              fault |-> "RuntimeError"]
        ELSE IF t1 = "raise"
        THEN [ddl_calls |-> 1, sql_calls |-> 0, bound |-> FALSE,
              fault |-> "ProviderError"]
        ELSE IF table = "None"
        THEN [ddl_calls |-> 1, sql_calls |-> 0, bound |-> FALSE,
              fault |-> "RuntimeError"]
        ELSE IF t2 = "raise"
        THEN [ddl_calls |-> 1, sql_calls |-> 1, bound |-> FALSE,
              fault |-> "ProviderError"]
        ELSE [ddl_calls |-> 1, sql_calls |-> 1, bound |-> TRUE,
              fault |-> "none"]

\* load_sql_and_train_once(SCHEMA_PATH), which streamlit.py imports from van:
\* the training step without the connection.
load_sql_and_train_once(schema, t1, t2) ==
    [load_and_train(schema, t1, t2) EXCEPT !.bound = FALSE]

\* ------------------------------------------------------ process_nl_query
\* The question looked up instead of its digest: never found.
cache_hit_by_question(cache, key) == FALSE

\* key in query_cache
cache_hit(cache, key) == key \in DOMAIN cache

\* vn.generate_sql(...) or ""
or_empty(p) == IF p.kind = "none" THEN EmptyText ELSE p.text

\* The fallback asked whatever the primary answered.
needs_fallback_always(sql) == TRUE

\* not sql.strip()
needs_fallback(sql) == Strip(sql) = EmptyText

\* The SQL of a call and how it was found: from the cache, from the primary
\* provider p, or from the fallback provider f.  fault names the error that
\* leaves process_nl_query before any SQL is found.
resolve(cache, q, p, f) ==
    LET key == md5(q)
    IN  IF cache_hit(cache, key)
        THEN [hit |-> TRUE, providers |-> {}, sql |-> cache[key],
              fault |-> "none"]
        ELSE IF p.kind = "raise"
        THEN [hit |-> FALSE, providers |-> {"vanna"}, sql |-> EmptyText,
              fault |-> "ProviderError"]
        ELSE IF ~needs_fallback(or_empty(p))
        THEN [hit |-> FALSE, providers |-> {"vanna"}, sql |-> or_empty(p),
              fault |-> "none"]
        ELSE LET m == call_mistral_chat(f)
             IN  IF m.kind = "raise"
                 THEN [hit |-> FALSE, providers |-> {"vanna", "mistral"},
                       sql |-> EmptyText, fault |-> "HTTPError"]
                 ELSE [hit |-> FALSE, providers |-> {"vanna", "mistral"},
                       sql |-> m.text, fault |-> "none"]

\* Where a process can be killed inside process_nl_query on a cache miss:
\* after query_cache[key] = sql, inside save_cache, after save_cache.
DiePoints == {"no", "stored", "saving", "saved"}

\* try: conn.execute(sql).fetchall() except Exception: print(...)
try_execute(tables, sql) ==
    LET r == execute(tables, sql)
    IN  [exec |-> r, fault |-> "none"]

\* The value process_nl_query hands back after an execution that gave rows, no
\* rows or an error: the function has no return statement.
returned_value(exec) == "None"

\* process_nl_query with save_cache(query_cache) called before
\* query_cache[key] = sql.
process_nl_query_save_first(cache, file, tables, q, p, f, die) ==
    LET r     == resolve(cache, q, p, f)
        store == ~r.hit /\ r.fault = "none"
        dead  == store /\ die # "no"
        mem   == IF store THEN Put(cache, md5(q), r.sql) ELSE cache
        disk  == IF ~store \/ die = "stored" THEN file
                 ELSE save_cache(cache, die = "saving")
        x     == IF r.fault = "none" /\ ~dead
                 THEN try_execute(tables, r.sql)
                 ELSE [exec |-> "none", fault |-> r.fault]
    IN  [hit |-> r.hit, providers |-> r.providers, sql |-> r.sql,
         resolved |-> r.fault = "none", cache |-> mem, file |-> disk,
         saved |-> store /\ die \in {"no", "saved"},
         exec |-> x.exec, fault |-> x.fault, died |-> dead,
         value |-> returned_value(x.exec)]

\* process_nl_query storing what it has as soon as the primary provider has
\* answered, before the fallback request.
process_nl_query_store_early(cache, file, tables, q, p, f, die) ==
    LET r     == resolve(cache, q, p, f)
        ok    == ~r.hit /\ r.fault = "none"
        store == ~r.hit /\ p.kind # "raise"
        dead  == ok /\ die # "no"
        mem   == IF store THEN Put(cache, md5(q), r.sql) ELSE cache
        disk  == IF ~store \/ (ok /\ die = "stored") THEN file
                 ELSE save_cache(mem, ok /\ die = "saving")
        x     == IF r.fault = "none" /\ ~dead
                 THEN try_execute(tables, r.sql)
                 ELSE [exec |-> "none", fault |-> r.fault]
    IN  [hit |-> r.hit, providers |-> r.providers, sql |-> r.sql,
         resolved |-> r.fault = "none", cache |-> mem, file |-> disk,
         saved |-> ok /\ die \in {"no", "saved"},
         exec |-> x.exec, fault |-> x.fault, died |-> dead,
         value |-> returned_value(x.exec)]

\* process_nl_query storing the SQL after the execution, and only when the
\* execution did not raise.
process_nl_query_store_after_execute(cache, file, tables, q, p, f, die) ==
    LET r     == resolve(cache, q, p, f)
        x     == IF r.fault = "none"
                 THEN try_execute(tables, r.sql)
                 ELSE [exec |-> "none", fault |-> r.fault]
        store == ~r.hit /\ r.fault = "none" /\ x.exec # "error"
        dead  == store /\ die # "no"
        mem   == IF store THEN Put(cache, md5(q), r.sql) ELSE cache
        disk  == IF ~store \/ die = "stored" THEN file
                 ELSE save_cache(mem, die = "saving")
    IN  [hit |-> r.hit, providers |-> r.providers, sql |-> r.sql,
         resolved |-> r.fault = "none", cache |-> mem, file |-> disk,
         saved |-> store /\ die \in {"no", "saved"},
         exec |-> x.exec, fault |-> x.fault, died |-> dead,
         value |-> returned_value(x.exec)]

\* process_nl_query(conn, nl_query) as a whole: the resolution, the cache in
\* memory and on disk afterwards (saved: save_cache has returned), the
\* execution, and the value returned.
process_nl_query(cache, file, tables, q, p, f, die) ==
    LET r     == resolve(cache, q, p, f)
        store == ~r.hit /\ r.fault = "none"
        dead  == store /\ die # "no"
        mem   == IF store THEN Put(cache, md5(q), r.sql) ELSE cache
        disk  == IF ~store \/ die = "stored" THEN file
                 ELSE save_cache(mem, die = "saving")
        x     == IF r.fault = "none" /\ ~dead
                 THEN try_execute(tables, r.sql)
                 ELSE [exec |-> "none", fault |-> r.fault]
    IN  [hit |-> r.hit, providers |-> r.providers, sql |-> r.sql,
         resolved |-> r.fault = "none", cache |-> mem, file |-> disk,
         saved |-> store /\ die \in {"no", "saved"},
         exec |-> x.exec, fault |-> x.fault, died |-> dead,
         value |-> returned_value(x.exec)]

\* ------------------------------------------------------ the submit handler
\* streamlit.py's handler on the value process_nl_query returned: df.empty on
\* None raises AttributeError; a frame is shown, or the "no results" message.
submit_handler(value) ==
    CASE value = "None"       -> [shown |-> "nothing", fault |-> "AttributeError"]
      [] value = "empty_frame" -> [shown |-> "no_results", fault |-> "none"]
      [] OTHER                 -> [shown |-> "table", fault |-> "none"]

\* ------------------------------------------------------------------ state
VARIABLES
    schema_file,   \* SCHEMA_PATH: [exists, script]
    db_tables,     \* the tables of DB_FILE
    db_flag,       \* DB_SCHEMA_FLAG exists
    vanna_flag,    \* VANNA_FLAG_PATH exists
    cache_file,    \* CACHE_PATH
    program,       \* the live process: "none", "main" (van.py), "ui"
                   \* (streamlit), "lib" (a session that imported van)
    pc,            \* where its script stands
    query_cache,   \* van.query_cache of the live process
    run_sql_bound, \* vn.run_sql is bound to a connection of this process
    fault,         \* the error that ended the last script run, "none" if none
    dl_last,       \* history: the provisioning of this script run
    gc_last,       \* history: the last get_connection call
    ddl_completed, \* history: some executescript call has returned
    train_calls,   \* history: vn.train(ddl=...) calls issued so far
    first,         \* history: per question, its first process_nl_query call
    settled,       \* history: per question, the SQL of a call that returned
    last           \* history: the process_nl_query call of this script run

vars == << schema_file, db_tables, db_flag, vanna_flag, cache_file, program, pc,
           query_cache, run_sql_bound, fault, dl_last, gc_last, ddl_completed,
           train_calls, first, settled, last >>

files   == << schema_file, db_tables, db_flag, vanna_flag, cache_file >>
gc_hist == << gc_last, ddl_completed >>
q_hist  == << first, settled, last >>

NoSchema == [exists |-> FALSE, script |-> << >>]
NoDownload == [by |-> "none", existed |-> FALSE, fetched |-> FALSE,
               changed |-> FALSE]
NotAsked == [kind |-> "unasked", text |-> EmptyText]
NoCall   == [q |-> "", first |-> FALSE, settled_before |-> FALSE, hit |-> FALSE,
             providers |-> {}, p |-> NotAsked, f |-> NotAsked,
             resolved |-> FALSE, sql |-> EmptyText, saved |-> FALSE,
             exec |-> "none", value |-> "none", fault |-> "none",
             died |-> FALSE, by |-> "none", bound |-> FALSE]

Init ==
    /\ schema_file = NoSchema
    /\ db_tables = {}
    /\ db_flag = FALSE
    /\ vanna_flag = FALSE
    /\ cache_file = NoFile
    /\ program = "none"
    /\ pc = "idle"
    /\ query_cache = EmptyCache
    /\ run_sql_bound = FALSE
    /\ fault = "none"
    /\ dl_last = NoDownload
    /\ gc_last = "none"
    /\ ddl_completed = FALSE
    /\ train_calls = 0
    /\ first = [q \in Questions |->
                  [called |-> FALSE, how |-> "none", sql |-> EmptyText]]
    /\ settled = [q \in Questions |->
                    [done |-> FALSE, sql |-> EmptyText, exec |-> "none"]]
    /\ last = NoCall

\* The script run ends with error e: van.py's process exits, Streamlit shows
\* the error and keeps its process (and the imported van module) alive.
EndRun(e) ==
    /\ fault' = e
    /\ pc' = "idle"
    /\ IF program = "main"
       THEN program' = "none" /\ query_cache' = EmptyCache
       ELSE UNCHANGED << program, query_cache >>

\* vn lives in the process: the binding is gone when the process is.
bound_after(b) == program' # "none" /\ b

\* python van.py / streamlit run streamlit.py: van's module body runs, and
\* query_cache = load_cache() with it.
Start(prog) ==
    /\ program = "none"
    /\ LET r == load_cache(cache_file)
       IN  IF r.raised
           THEN /\ fault' = "JSONDecodeError"
                /\ UNCHANGED << program, pc, query_cache >>
           ELSE /\ program' = prog
                /\ pc' = IF prog = "lib" THEN "lib" ELSE "provision"
                /\ query_cache' = r.cache
                /\ fault' = "none"
    /\ last' = NoCall
    /\ dl_last' = NoDownload
    /\ run_sql_bound' = FALSE
    /\ UNCHANGED << files, gc_hist, train_calls, first, settled >>

\* Streamlit runs the script again on the next interaction.
Rerun ==
    /\ program = "ui"
    /\ pc = "idle"
    /\ pc' = "provision"
    /\ fault' = "none"
    /\ last' = NoCall
    /\ dl_last' = NoDownload
    /\ UNCHANGED << files, program, query_cache, run_sql_bound, gc_hist,
                    train_calls, first, settled >>

\* What curl -L url -o output_path can do: fail (check=True raises), or write
\* what the server sent, an error page included.
DownloadOutcomes == {[ok |-> FALSE, script |-> << >>]}
                    \cup {[ok |-> TRUE, script |-> s] : s \in Scripts}

\* download_sql_file_with_curl(url): the file afterwards.
download_sql_file_with_curl(file, d) ==
    IF d.ok THEN [exists |-> TRUE, script |-> d.script] ELSE file

\* The test left out: the download runs on every start.
schema_missing_always(file) == TRUE

\* not os.path.exists(SCHEMA_PATH)
schema_missing(file) == ~file.exists

\* How a provisioning went, for the history: whether the file was there
\* before, whether curl ran, whether the file's content changed.
dl_label(by, before, after, ran) ==
    [by |-> by, existed |-> before.exists, fetched |-> ran,
     changed |-> after # before]

\* if not os.path.exists(SCHEMA_PATH): download_sql_file_with_curl(...)
Provision ==
    /\ pc = "provision"
    /\ IF ~schema_missing(schema_file)
       THEN /\ pc' = "connect"
            /\ dl_last' = dl_label("provision", schema_file, schema_file, FALSE)
            /\ UNCHANGED << schema_file, program, query_cache, fault >>
       ELSE \E d \in DownloadOutcomes :
            /\ schema_file' = download_sql_file_with_curl(schema_file, d)
            /\ dl_last' = dl_label("provision", schema_file, schema_file', TRUE)
            /\ IF d.ok
               THEN /\ pc' = "connect"
                    /\ UNCHANGED << program, query_cache, fault >>
               ELSE EndRun("CalledProcessError")
    /\ run_sql_bound' = bound_after(run_sql_bound)
    /\ UNCHANGED << db_tables, db_flag, vanna_flag, cache_file, gc_hist,
                    train_calls, q_hist >>

\* The process is killed (power loss, kill -9): memory is gone, files stay.
Killed ==
    /\ program' = "none"
    /\ pc' = "idle"
    /\ query_cache' = EmptyCache
    /\ fault' = "killed"

Kill ==
    /\ program # "none"
    /\ Killed
    /\ run_sql_bound' = FALSE
    /\ UNCHANGED << files, dl_last, gc_hist, train_calls, q_hist >>

\* A session that imported van calls download_sql_file_with_curl(url) itself,
\* whatever the state of the file; a failed curl raises to the session.
Download ==
    /\ program = "lib"
    /\ \E d \in DownloadOutcomes :
         /\ schema_file' = download_sql_file_with_curl(schema_file, d)
         /\ dl_last' = dl_label("direct", schema_file, schema_file', TRUE)
         /\ fault' = IF d.ok THEN "none" ELSE "CalledProcessError"
    /\ UNCHANGED << db_tables, db_flag, vanna_flag, cache_file, program, pc,
                    query_cache, run_sql_bound, gc_hist, train_calls, q_hist >>

\* How a get_connection call went, for the history.
gc_label(r) ==
    IF ~r.ddl THEN (IF r.fault = "none" THEN "skipped" ELSE "no_schema")
    ELSE IF ~r.ddl_ok THEN "ddl_failed"
    ELSE IF r.died THEN "ddl_killed"
    ELSE "ddl_ok"

\* conn = get_connection(), in either branch of the VANNA_FLAG_PATH test.
Connect ==
    /\ pc = "connect"
    /\ \E die \in BOOLEAN :
         LET r == get_connection(db_flag, schema_file, db_tables, die)
         IN  /\ db_tables' = r.tables
             /\ db_flag' = r.flag
             /\ gc_last' = gc_label(r)
             /\ ddl_completed' = (ddl_completed \/ r.ddl_ok)
             /\ IF r.died THEN Killed
                ELSE IF r.fault # "none" THEN EndRun(r.fault)
                ELSE /\ pc' = IF vanna_flag THEN "query" ELSE "train"
                     /\ UNCHANGED << program, query_cache, fault >>
    /\ run_sql_bound' = bound_after(run_sql_bound)
    /\ UNCHANGED << schema_file, vanna_flag, cache_file, dl_last, train_calls,
                    q_hist >>

Min(a, b) == IF a < b THEN a ELSE b

\* load_and_train(conn, SCHEMA_PATH) in van.py,
\* load_sql_and_train_once(SCHEMA_PATH) in streamlit.py.
Train ==
    /\ pc = "train"
    /\ \E t1 \in TrainOutcomes, t2 \in TrainOutcomes :
         LET r == IF program = "main"
                  THEN load_and_train(schema_file, t1, t2)
                  ELSE load_sql_and_train_once(schema_file, t1, t2)
         IN  /\ train_calls' = Min(train_calls + r.ddl_calls, MaxTrainCalls)
             /\ IF r.fault # "none" THEN EndRun(r.fault)
                ELSE /\ pc' = "mark"
                     /\ UNCHANGED << program, query_cache, fault >>
             /\ run_sql_bound' = bound_after(IF r.fault = "none" THEN r.bound
                                             ELSE run_sql_bound)
    /\ UNCHANGED << files, dl_last, gc_hist, q_hist >>

\* with open(VANNA_FLAG_PATH, "w") as f: f.write("trained")
Mark ==
    /\ pc = "mark"
    /\ vanna_flag' = TRUE
    /\ pc' = "query"
    /\ UNCHANGED << schema_file, db_tables, db_flag, cache_file, program,
                    query_cache, run_sql_bound, fault, dl_last, gc_hist,
                    train_calls, q_hist >>

\* The history of a process_nl_query call with question q, primary answer p
\* and fallback answer f, whose outcome is r.
Record(q, p, f, r, by) ==
    LET back == r.fault = "none" /\ ~r.died
    IN  /\ last' = [q |-> q, first |-> ~first[q].called,
                    settled_before |-> settled[q].done, hit |-> r.hit,
                    providers |-> r.providers,
                    p |-> IF "vanna" \in r.providers THEN p ELSE NotAsked,
                    f |-> IF "mistral" \in r.providers THEN f ELSE NotAsked,
                    resolved |-> r.resolved, sql |-> r.sql,
                    saved |-> r.saved, exec |-> r.exec,
                    value |-> IF r.fault = "none" /\ ~r.died THEN r.value
                              ELSE "none",
                    fault |-> r.fault, died |-> r.died, by |-> by,
                    bound |-> run_sql_bound]
        /\ first' = IF first[q].called THEN first
                    ELSE [first EXCEPT ![q] =
                             [called |-> TRUE,
                              how |-> IF r.died THEN "killed"
                                      ELSE IF back THEN "returned"
                                      ELSE r.fault,
                              sql |-> r.sql]]
        /\ settled' = IF settled[q].done \/ ~back THEN settled
                      ELSE [settled EXCEPT ![q] =
                               [done |-> TRUE, sql |-> r.sql, exec |-> r.exec]]

\* What the world can answer to a call with question q: on a hit no provider
\* is asked and nothing is stored, so nothing the world does matters.
CallInputs(q) ==
    IF cache_hit(query_cache, md5(q))
    THEN {[p |-> NotAsked, f |-> NotAsked, die |-> "no"]}
    ELSE [p : GenerateSqlOutcomes, f : MistralOutcomes, die : DiePoints]

\* van.py: process_nl_query(conn, "top 5 countries on the basis of sales"),
\* and the script ends.
Query ==
    /\ pc = "query"
    /\ program = "main"
    /\ \E in \in CallInputs(MainQuestion) :
         LET r == process_nl_query(query_cache, cache_file, db_tables,
                                   MainQuestion, in.p, in.f, in.die)
         IN  /\ cache_file' = r.file
             /\ Record(MainQuestion, in.p, in.f, r, "main")
             /\ program' = "none"
             /\ pc' = "idle"
             /\ query_cache' = EmptyCache
             /\ fault' = IF r.died THEN "killed" ELSE r.fault
             /\ run_sql_bound' = FALSE
    /\ UNCHANGED << schema_file, db_tables, db_flag, vanna_flag, dl_last,
                    gc_hist, train_calls >>

\* streamlit.py: submit and a non-blank question; df = process_nl_query(conn,
\* nl_query), then the handler's use of df.
Submit ==
    /\ pc = "query"
    /\ program = "ui"
    /\ \E q \in Questions : \E in \in CallInputs(q) :
         LET r == process_nl_query(query_cache, cache_file, db_tables,
                                   q, in.p, in.f, in.die)
         IN  /\ cache_file' = r.file
             /\ Record(q, in.p, in.f, r, "ui")
             /\ IF r.died THEN Killed
                ELSE /\ query_cache' = r.cache
                     /\ pc' = "idle"
                     /\ program' = program
                     /\ fault' = IF r.fault # "none" THEN r.fault
                                 ELSE submit_handler(r.value).fault
             /\ run_sql_bound' = bound_after(run_sql_bound)
    /\ UNCHANGED << schema_file, db_tables, db_flag, vanna_flag, dl_last,
                    gc_hist, train_calls >>

\* streamlit.py: the button was not pressed, or the question is blank.
NoSubmit ==
    /\ pc = "query"
    /\ program = "ui"
    /\ pc' = "idle"
    /\ UNCHANGED << files, program, query_cache, run_sql_bound, fault, dl_last,
                    gc_hist, train_calls, q_hist >>

Next ==
    \/ Start("main")
    \/ Start("ui")
    \/ Rerun
    \/ Provision
    \/ Connect
    \/ Train
    \/ Mark
    \/ Query
    \/ Submit
    \/ NoSubmit
    \/ Kill

Spec == Init /\ [][Next]_vars

\* The startup sequence of the two scripts up to the first question and, next
\* to it, sessions that import van and call its provisioner themselves.
NextSetup ==
    \/ Start("main")
    \/ Start("ui")
    \/ Start("lib")
    \/ Rerun
    \/ Provision
    \/ Download
    \/ Connect
    \/ Train
    \/ Mark
    \/ Kill

SpecSetup == Init /\ [][NextSetup]_vars

\* ------------------------------------------------------------------ claims
Called == last.q # ""

\* C1 as stated: after the first call with a question, every later call with
\* the same question resolves to the SQL of the first call and asks neither
\* provider.  Stated for first calls that ended by themselves and in which the
\* primary provider did not raise: they returned, or the fallback request
\* failed.
C1_RepeatUsesFirstSql ==
    (Called /\ ~last.first /\ first[last.q].how \in {"returned", "HTTPError"})
        => /\ last.providers = {}
           /\ last.resolved
           /\ last.sql = first[last.q].sql

\* C1 amended: after a call with a question has returned, every later call
\* with the same question resolves to the SQL of that call and asks neither
\* provider.
C1_RepeatUsesSettledSql ==
    (Called /\ last.settled_before)
        => /\ last.hit
           /\ last.providers = {}
           /\ last.resolved
           /\ last.sql = settled[last.q].sql

\* A call with a question that an earlier call, in an earlier process, settled.
C1_Witness ==
    /\ Called
    /\ last.settled_before
    /\ last.by = "main"
    /\ last.fault = "none"

\* What the spec calls an empty or error-marked primary result.
EmptyOrErrorMarked(p) ==
    /\ p.kind = "text"
    /\ \/ p.text = EmptyText
       \/ Head(p.text) = ErrMarker

\* C2: on a miss, a primary result that is empty or begins with an error
\* marker makes the call ask the fallback provider, and the SQL of the call is
\* the fallback's output.
C2_FallbackOnEmptyOrError ==
    (Called /\ ~last.hit /\ EmptyOrErrorMarked(last.p))
        => /\ "mistral" \in last.providers
           /\ last.resolved => last.sql = call_mistral_chat(last.f).text

\* C3: on a miss, an error raised by the primary provider does not leave
\* process_nl_query: the fallback provider is asked for the same question.
C3_PrimaryFailureFallsBack ==
    (Called /\ last.p.kind = "raise")
        => /\ "mistral" \in last.providers
           /\ last.fault # "ProviderError"

\* C4: when the database rejects the SQL of a call, no error leaves
\* process_nl_query and none leaves the script run that made the call.
C4_RejectedSqlIsHandled ==
    (Called /\ last.exec = "error" /\ fault # "killed")
        => /\ last.fault = "none"
           /\ fault = "none"

RanDdl(label) == label \in {"ddl_ok", "ddl_failed", "ddl_killed"}

\* C5 as stated: of two get_connection calls in sequence at most one executes
\* the schema script; the second performs no DDL.
C5_SecondCallNoDdl ==
    [][(Connect /\ gc_last \in {"ddl_ok", "ddl_failed"}) => ~RanDdl(gc_last')]_vars

\* C5 amended: after a get_connection call that returned, the next
\* get_connection call performs no DDL.
C5_NoDdlAfterReturn ==
    [][(Connect /\ gc_last \in {"ddl_ok", "skipped"}) => gc_last' = "skipped"]_vars

\* A second get_connection call, in a later process, after one that returned.
C5_Witness ==
    /\ gc_last = "skipped"
    /\ program = "ui"
    /\ pc = "query"

\* C6: the DB-initialized marker exists only if a run of the schema script
\* has completed without error; a call whose script fails leaves it absent.
C6_FlagOnlyAfterCompletedRun ==
    /\ db_flag => ddl_completed
    /\ gc_last \in {"ddl_failed", "ddl_killed"} => ~db_flag

\* A get_connection call whose script failed part way.
C6_Witness ==
    /\ gc_last = "ddl_failed"
    /\ db_tables # {}
    /\ ~db_flag

\* C7: over all the starts of one deployment, vn.train(ddl=...) is issued at
\* most once.
C7_TrainAtMostOnce == train_calls <= 1

\* C8: when the fallback call fails, the error leaves process_nl_query and
\* the script run, nothing is resolved and no SQL is executed.
C8_FallbackFailureIsFatal ==
    (Called /\ last.f.kind = "raise")
        => /\ last.fault = "HTTPError"
           /\ ~last.resolved
           /\ last.exec = "none"
           /\ last.providers = {"vanna", "mistral"}
           /\ fault \in {"HTTPError", "killed"}

\* A call whose fallback request failed.
C8_Witness ==
    /\ Called
    /\ last.f.kind = "raise"
    /\ fault = "HTTPError"

Preserved(old, new) ==
    \A k \in DOMAIN old : k \in DOMAIN new /\ new[k] = old[k]

\* C9: no process_nl_query call removes or overwrites an entry: within a
\* process query_cache only grows, and a call that ends by itself leaves every
\* entry of the cache file in place.
C9_CacheAppendOnly ==
    [][/\ program' = program => Preserved(query_cache, query_cache')
       /\ (cache_file.state = "ok" /\ fault' # "killed")
              => /\ cache_file'.state = "ok"
                 /\ Preserved(cache_file.data, cache_file'.data)]_vars

\* A second entry has been stored next to the first.
C9_Witness ==
    /\ Cardinality(DOMAIN query_cache) = 2
    /\ cache_file = JsonFile(query_cache)

IsStatement(l) == ~IsCommentLine(l)

\* C10: the SQL a call stores and executes is the provider's response without
\* its comment-only lines, the other lines in their order.
C10_StoredSqlIsSanitized ==
    (Called /\ ~last.hit /\ last.resolved /\ last.providers = {"vanna"}
        /\ \E i \in 1..Len(last.p.text) : IsCommentLine(last.p.text[i]))
        => last.sql = SelectSeq(last.p.text, IsStatement)

\* What a restart finds in the cache file.
Found(file) == load_cache(file).cache

\* C11 as stated: once the store step has returned, the file holds the new
\* entry and the earlier ones, and whatever happens later, a crash included, a
\* restart finds every entry the file held.
C11_EntrySurvivesAnyCrash ==
    [][/\ last'.saved =>
             /\ cache_hit(Found(cache_file'), md5(last'.q))
             /\ Found(cache_file')[md5(last'.q)] = last'.sql
       /\ Preserved(Found(cache_file), Found(cache_file'))]_vars

\* C11 amended: once the store step has returned, the file holds the new
\* entry and the earlier ones, and a restart finds every entry the file held
\* unless a process was killed inside a later save_cache call, which leaves
\* the file cut short.
C11_WriteThrough ==
    [][/\ last'.saved =>
             /\ cache_hit(Found(cache_file'), md5(last'.q))
             /\ Found(cache_file')[md5(last'.q)] = last'.sql
       /\ cache_file'.state # "corrupt"
              => Preserved(Found(cache_file), Found(cache_file'))]_vars

\* The process was killed right after save_cache returned, with an earlier
\* entry and the new one in the file.
C11_Witness ==
    /\ last.saved
    /\ last.died
    /\ program = "none"
    /\ Cardinality(DOMAIN Found(cache_file)) = 2

\* C12 as stated: with the destination present, the provisioner fetches
\* nothing and leaves the file as it is, whoever calls it.
C12_NoFetchWhenPresent ==
    (dl_last.by # "none" /\ dl_last.existed)
        => /\ ~dl_last.fetched
           /\ ~dl_last.changed

\* C12 amended: the provisioning step of the two scripts (the existence test
\* and then download_sql_file_with_curl) fetches exactly when the file is
\* absent and leaves a present file as it is; download_sql_file_with_curl
\* itself fetches whenever it is called.
C12_GuardedStepNoOp ==
    /\ dl_last.by = "provision"
           => /\ dl_last.fetched <=> ~dl_last.existed
              /\ dl_last.existed => ~dl_last.changed
    /\ dl_last.by = "direct" => dl_last.fetched

\* A start of van.py or of the Streamlit script that found the schema file.
C12_Witness ==
    /\ dl_last.by = "provision"
    /\ dl_last.existed
    /\ pc = "connect"

\* A primary result that is empty (None, "", or white space only) or begins
\* with an error marker.
EmptyOrError(p) ==
    \/ p.kind \in {"none", "text"} /\ Strip(or_empty(p)) = EmptyText
    \/ p.kind = "text" /\ p.text # EmptyText /\ Head(p.text) = ErrMarker

\* C13: in one call the fallback provider is asked only after the primary was
\* asked and answered with an empty or error-marked result; after a primary
\* answer that is a non-empty, non-error SQL string the fallback is not asked
\* and the primary's SQL is the SQL of the call, in query_cache and, once
\* save_cache has returned, in the cache file.
C13_ProviderOrder ==
    Called =>
        /\ "mistral" \in last.providers
               => /\ "vanna" \in last.providers
                  /\ EmptyOrError(last.p)
        /\ (last.p.kind = "text" /\ ~EmptyOrError(last.p))
               => /\ last.providers = {"vanna"}
                  /\ last.sql = last.p.text
                  /\ last.saved
                         => Found(cache_file)[md5(last.q)] = last.p.text
                  /\ program = "ui"
                         => query_cache[md5(last.q)] = last.p.text

\* A call in which the primary answered with SQL, stored in memory and on
\* disk.
C13_Witness ==
    /\ Called
    /\ last.p = Text(<< Comment, SelAlbum >>)
    /\ last.saved
    /\ program = "ui"
    /\ cache_hit(query_cache, md5(last.q))

\* C14: a get_connection call whose schema script fails partway through
\* leaves the database as it was before the call, none of the script's
\* statements applied.
C14_FailedScriptLeavesNoTables ==
    [][(pc = "connect" /\ gc_last' = "ddl_failed")
           => db_tables' = db_tables]_vars

\* C15: the value process_nl_query hands back after an execution that raised
\* differs from the value it hands back after an execution that succeeded
\* with no rows.
C15_FailureDiffersFromEmpty ==
    (Called /\ last.exec = "error" /\ last.value # "none")
        => last.value # returned_value("empty")

\* C16: a process_nl_query call that ends because a provider raised leaves
\* the cache as it was: the cache file is unchanged, query_cache is unchanged
\* while its process lives, and neither holds an entry for the question, so
\* the next call with it is a miss and asks the primary provider.
C16_FailedResolutionLeavesCache ==
    [][(last' # last /\ last'.fault # "none")
           => /\ cache_file' = cache_file
              /\ ~cache_hit(Found(cache_file'), md5(last'.q))
              /\ program' # "none"
                     => /\ query_cache' = query_cache
                        /\ ~cache_hit(query_cache', md5(last'.q))]_vars

\* A Streamlit call that ended in the fallback's error, with the other
\* question's entry in the cache.
C16_Witness ==
    /\ Called
    /\ last.fault = "HTTPError"
    /\ program = "ui"
    /\ query_cache # EmptyCache
    /\ Found(cache_file) = query_cache

\* C17: on a miss the SQL is in the cache file before it is executed, and a
\* SQL whose execution raised stays cached: a later call with the same
\* question hits the cache, asks no provider, and executes the same SQL, which
\* raises again.
C17_FailingSqlStaysCached ==
    /\ (Called /\ ~last.hit /\ last.exec # "none")
           => /\ last.saved
              /\ cache_hit(Found(cache_file), md5(last.q))
              /\ Found(cache_file)[md5(last.q)] = last.sql
    /\ (Called /\ last.settled_before /\ settled[last.q].exec = "error")
           => /\ last.hit
              /\ last.providers = {}
              /\ last.sql = settled[last.q].sql
              /\ last.exec = "error"

\* A call, in a later process, with a question whose SQL raised when it was
\* first executed.
C17_Witness ==
    /\ Called
    /\ last.settled_before
    /\ settled[last.q].exec = "error"
    /\ last.by = "main"
    /\ last.hit

\* C18: in every state of the startup sequence, after a failure or a kill
\* between its steps too, the trained marker exists only if the
\* DB-initialized marker exists.
C18_TrainedOnlyIfInitialized ==
    vanna_flag => db_flag

\* Both markers written, and the process killed afterwards.
C18_Witness ==
    /\ vanna_flag
    /\ db_flag
    /\ fault = "killed"
    /\ program = "none"

\* C19: whenever van.py asks the primary provider with data access allowed,
\* vn.run_sql has been bound to a connection in that process, on the first
\* run and on a later run that finds the trained marker.
C19_RunSqlBoundWhenAsked ==
    (Called /\ "vanna" \in last.providers /\ last.by = "main")
        => last.bound

====
